---- MODULE Spec2Model ----
(***************************************************************************)
(* Payment-event reconciliation of server.js: the Paystack webhook         *)
(* (signature check, event extraction, plan resolution, Payment and        *)
(* Subscription upserts), the initialize call's Payment creation and the   *)
(* subscription status read.  src/server.js holds two variants of the      *)
(* server (lines 1-300 and lines 302-654); `variant` says which one runs.  *)
(***************************************************************************)
EXTENDS Integers, Sequences, FiniteSets, TLC

\* ---------------------------------------------------------------- bounds
\* number of requests served in one behaviour
MaxReq == 3

\* ------------------------------------------------------- JavaScript values
Undefined == "<undefined>"
Null == "<null>"
\* SQL NULL / JS undefined in the integer column amountMinor
NoAmount == -1
\* absent timestamp in a response
NoTime == -1

\* JS falsiness of the values the handlers test (!email, reference || "", ...)
Falsy(v) == v \in {Undefined, Null, ""}
Truthy(v) == ~Falsy(v)
\* JS a || b
OrElse(a, b) == IF Truthy(a) THEN a ELSE b

\* ------------------------------------------------------------ configuration
VARIABLES
  variant,              \* 1: server.js lines 1-300, 2: server.js lines 302-654
  PAYSTACK_SECRET_KEY,  \* process.env.PAYSTACK_SECRET_KEY || ""
  envPremium,           \* process.env.PAYSTACK_PLAN_PREMIUM || ""
  envPro,               \* process.env.PAYSTACK_PLAN_PRO || ""
\* ------------------------------------------------------------ persistence
  users,                \* rows of prisma.user
  payments,             \* rows of prisma.payment
  subscriptions,        \* rows of prisma.subscription
\* ------------------------------------------------------------ environment
  now,                  \* the clock
  nreq,                 \* requests received so far
  conn,                 \* the request being served, then its response
  issued,               \* references the processor has handed out to initialize
\* ------------------------------------------------------------ history
  applied,              \* charge.success events applied with no persistence error
  refTrail,             \* per reference: the event types applied to it, in order
  entitled,             \* <<email, plan code>> charged and not disabled since
  revived,              \* <<userId, plan>> of the canceled rows a charge made active
\* ------------------------------------------------------------ concurrency
  inflight              \* per handler: the request it is serving, step by step

config == <<variant, PAYSTACK_SECRET_KEY, envPremium, envPro>>
db == <<users, payments, subscriptions>>
history == <<applied, refTrail, entitled, revived>>
vars == <<variant, PAYSTACK_SECRET_KEY, envPremium, envPro,
          users, payments, subscriptions, now, nreq, conn, issued,
          applied, refTrail, entitled, revived, inflight>>

Variants == {1, 2}
Secrets == {"", "sk_live"}
PremiumCodes == {"", "PLN_premium"}
ProCodes == {"", "PLN_pro"}

\* PLAN_CODES[key]: variant 1 keys the table by the environment variable names,
\* variant 2 by the plan keys; a missing property reads as undefined.
PLAN_CODES(key) ==
  IF variant = 1
  THEN CASE key = "PAYSTACK_PLAN_PREMIUM" -> envPremium
         [] key = "PAYSTACK_PLAN_PRO" -> envPro
         [] OTHER -> Undefined
  ELSE CASE key = "premium" -> envPremium
         [] key = "pro" -> envPro
         [] OTHER -> Undefined

\* ------------------------------------------------------------- deliveries
\* A raw request body: json says whether JSON.parse accepts it; the other
\* fields are event, data.customer.email, data.reference, data.plan,
\* data.plan_object.plan_code and data.amount of the parsed value.
Emails == {"a@x.com", "b@x.com"}
References == {"ref1"}
Plans == {Undefined, "PLN_premium", "PLN_other"}
PlanObjectCodes == {Undefined, "PLN_pro"}

Body(event, email, reference, plan, plan_code) ==
  [json |-> TRUE, event |-> event, email |-> email, reference |-> reference,
   plan |-> plan, plan_code |-> plan_code, amount |-> 4900]

PlanFields == Plans \X PlanObjectCodes

ChargeBodies ==
  {Body("charge.success", e, r, pf[1], pf[2]) :
     e \in Emails, r \in References \cup {Undefined}, pf \in PlanFields}
  \cup {Body("charge.success", Undefined, "ref1", "PLN_premium", Undefined)}

FailedBodies ==
  {Body(t, "a@x.com", r, "PLN_premium", Undefined) :
     t \in {"charge.failed", "invoice.payment_failed"},
     r \in References \cup {Undefined}}

DisableBodies ==
  {Body("subscription.disable", e, Undefined, pf[1], pf[2]) :
     e \in Emails, pf \in PlanFields}
  \cup {Body("subscription.disable", Undefined, Undefined, "PLN_premium", Undefined)}

FutureBodies == {Body("some.future.event", "a@x.com", "ref1", "PLN_premium", Undefined)}

\* a body JSON.parse throws on
NotJson ==
  [json |-> FALSE, event |-> Undefined, email |-> Undefined,
   reference |-> Undefined, plan |-> Undefined, plan_code |-> Undefined,
   amount |-> 4900]

Bodies == ChargeBodies \cup FailedBodies \cup DisableBodies \cup FutureBodies
          \cup {NotJson}

\* the plan fields a charge.success delivery can carry, for plan resolution
PlanValues == {Undefined, Null, "", "PLN_premium", "PLN_pro", "PLN_other"}
PlanBodies ==
  {Body("charge.success", "a@x.com", "ref1", p, c) :
     p \in PlanValues, c \in PlanValues}

\* a digest of the key alone (no .update(body)): the same for every body
HmacSha512Hex_keyOnly(key, body) ==
  [key |-> key,
   msg |-> [json |-> FALSE, event |-> Undefined, email |-> Undefined,
            reference |-> Undefined, plan |-> Undefined,
            plan_code |-> Undefined, amount |-> 4900]]

\* crypto.createHmac("sha512", key).update(body).digest("hex"): the digest
\* is determined by key and message, and distinct (key, message) pairs give
\* distinct digests.
HmacSha512Hex(key, body) == [key |-> key, msg |-> body]

\* req.headers["x-paystack-signature"]: << >> when the header is missing,
\* <<hex>> when present.  A caller sends no header, the digest of this body
\* under some key, or the digest of another body.
NoHeader == << >>
SignaturesFor(body) ==
  {NoHeader} \cup {<<HmacSha512Hex(k, body)>> : k \in Secrets}
             \cup {<<HmacSha512Hex(PAYSTACK_SECRET_KEY, NotJson)>>}

\* ------------------------------------------------------ persistence gateway
\* The names a persistence call can fail under (the store is unreachable for
\* that call).
Ops == {"user.findUnique", "user.create", "payment.upsert", "payment.updateMany",
        "payment.create", "subscription.upsert", "subscription.updateMany"}
\* what is unreachable during one request: nothing, one call, or the whole store
FailChoices == {{}} \cup {{o} : o \in Ops} \cup {Ops}

\* JS null where a user is expected; user?.id is then undefined
NoUser == [id |-> Undefined, email |-> Undefined]

\* prisma.user.findUnique({ where: { email } })
userFindUnique(us, email) ==
  IF \E u \in us : u.email = email
  THEN CHOOSE u \in us : u.email = email
  ELSE NoUser

\* prisma.user.create({ data: { email } }): email is the unique key that
\* findUnique reads by, so a second row for it is refused.
userCreate(us, email) ==
  IF \E u \in us : u.email = email
  THEN [rows |-> us, user |-> NoUser, err |-> TRUE]
  ELSE LET u == [id |-> "u" \o ToString(Cardinality(us) + 1), email |-> email]
       IN [rows |-> us \cup {u}, user |-> u, err |-> FALSE]

\* createOrGetUser(email): variant 1 catches every persistence error and
\* returns null; variant 2 lets it propagate (thrown).
createOrGetUser(us, email, down) ==
  IF Falsy(email)
  THEN [users |-> us, user |-> NoUser, errors |-> {}, thrown |-> FALSE]
  ELSE IF "user.findUnique" \in down
  THEN [users |-> us, user |-> NoUser, errors |-> {"user.findUnique"},
        thrown |-> variant = 2]
  ELSE LET u == userFindUnique(us, email)
       IN IF u # NoUser
          THEN [users |-> us, user |-> u, errors |-> {}, thrown |-> FALSE]
          ELSE IF "user.create" \in down \/ userCreate(us, email).err
          THEN [users |-> us, user |-> NoUser, errors |-> {"user.create"},
                thrown |-> variant = 2]
          ELSE [users |-> userCreate(us, email).rows,
                user |-> userCreate(us, email).user,
                errors |-> {}, thrown |-> FALSE]

\* `ref_${Date.now()}`
GeneratedReference(t) == "ref_" \o ToString(t)

\* the payment write as a plain insert (create instead of upsert, on a
\* column without the unique key): every delivery adds a row
paymentUpsert_insertOnly(ps, whereRef, createRef, userId, amount, currency) ==
  [rows |-> ps \cup {[id |-> Cardinality(ps) + 1, userId |-> userId,
                      reference |-> createRef, status |-> "success",
                      amountMinor |-> amount, currency |-> currency]},
   err |-> FALSE]

\* prisma.payment.upsert({ where: { reference: whereRef }, update: {status:
\* "success", amountMinor, currency}, create: {...} }): the row with the
\* reference is updated when there is one, otherwise the create row is
\* inserted, refused when its own reference is taken.
paymentUpsert(ps, whereRef, createRef, userId, amount, currency) ==
  IF \E p \in ps : p.reference = whereRef
  THEN [rows |-> {IF p.reference = whereRef
                  THEN [p EXCEPT !.status = "success", !.amountMinor = amount,
                                 !.currency = currency]
                  ELSE p : p \in ps},
        err |-> FALSE]
  ELSE IF \E p \in ps : p.reference = createRef
  THEN [rows |-> ps, err |-> TRUE]
  ELSE [rows |-> ps \cup {[id |-> Cardinality(ps) + 1, userId |-> userId,
                           reference |-> createRef, status |-> "success",
                           amountMinor |-> amount, currency |-> currency]},
        err |-> FALSE]

\* prisma.payment.updateMany({ where: { reference }, data: { status: "failed" } })
paymentUpdateMany(ps, reference) ==
  {IF p.reference = reference THEN [p EXCEPT !.status = "failed"] ELSE p : p \in ps}

\* the payment create on a reference column without the unique key: the row
\* is inserted whatever rows there are
paymentCreate_noUniqueKey(ps, userId, reference) ==
  [rows |-> ps \cup {[id |-> Cardinality(ps) + 1, userId |-> userId,
                      reference |-> reference, status |-> "initialized",
                      amountMinor |-> NoAmount, currency |-> "GHS"]},
   err |-> FALSE]

\* prisma.payment.create({ data: { userId, reference, status: "initialized",
\* currency: "GHS", ... } }) of the initialize call
paymentCreate(ps, userId, reference) ==
  IF \E p \in ps : p.reference = reference
  THEN [rows |-> ps, err |-> TRUE]
  ELSE [rows |-> ps \cup {[id |-> Cardinality(ps) + 1, userId |-> userId,
                           reference |-> reference, status |-> "initialized",
                           amountMinor |-> NoAmount, currency |-> "GHS"]},
        err |-> FALSE]

\* the subscription write as create-if-absent: a row that exists is left as
\* it is
subscriptionUpsert_createIfAbsent(ss, userId, plan, planCode, t) ==
  IF \E s \in ss : s.userId = userId /\ s.plan = plan
  THEN ss
  ELSE ss \cup {[id |-> Cardinality(ss) + 1, userId |-> userId, plan |-> plan,
                 status |-> "active", providerPlanCode |-> planCode,
                 lastPaidAt |-> t]}

\* prisma.subscription.upsert({ where: { userId_plan: { userId, plan } },
\* update: { status: "active", providerPlanCode: planCode, lastPaidAt },
\* create: { userId, plan, status: "active", providerPlanCode, lastPaidAt } });
\* an undefined value in update leaves the column as it is, and variant 2
\* creates with planCode || null.
subscriptionUpsert(ss, userId, plan, planCode, t) ==
  IF \E s \in ss : s.userId = userId /\ s.plan = plan
  THEN {IF s.userId = userId /\ s.plan = plan
        THEN [s EXCEPT !.status = "active",
                       !.providerPlanCode =
                          IF planCode = Undefined THEN @ ELSE planCode,
                       !.lastPaidAt = t]
        ELSE s : s \in ss}
  ELSE ss \cup {[id |-> Cardinality(ss) + 1, userId |-> userId, plan |-> plan,
                 status |-> "active",
                 providerPlanCode |->
                    IF variant = 2 THEN OrElse(planCode, Null)
                    ELSE IF planCode = Undefined THEN Null ELSE planCode,
                 lastPaidAt |-> t]}

\* the update with where: { userId } alone: every plan of the user is
\* canceled
subscriptionUpdateMany_everyPlan(ss, userId, plan) ==
  {IF s.userId = userId THEN [s EXCEPT !.status = "canceled"] ELSE s : s \in ss}

\* prisma.subscription.updateMany({ where: { userId, plan }, data: { status:
\* "canceled" } })
subscriptionUpdateMany(ss, userId, plan) ==
  {IF s.userId = userId /\ s.plan = plan THEN [s EXCEPT !.status = "canceled"]
   ELSE s : s \in ss}

\* ------------------------------------------------------------ the webhook
\* const planCode = data?.plan || data?.plan_object?.plan_code
planCodeOf(body) == OrElse(body.plan, body.plan_code)

\* planCode === PLAN_CODES.premium ? "premium" :
\* planCode === PLAN_CODES.pro ? "pro" : "unknown"   (charge.success branch)
planKeyOf(planCode) ==
  IF planCode = PLAN_CODES("premium") THEN "premium"
  ELSE IF planCode = PLAN_CODES("pro") THEN "pro"
  ELSE "unknown"

\* the signature check as `if (signature && signature !== computed)`: a
\* delivery without the header would pass
signatureRejected_headerOptional(body, signature) ==
  /\ signature # NoHeader
  /\ signature # <<HmacSha512Hex(PAYSTACK_SECRET_KEY, body)>>

\* signature !== computed, the HMAC keyed with PAYSTACK_SECRET_KEY over the
\* raw body
signatureRejected(body, signature) ==
  signature # <<HmacSha512Hex(PAYSTACK_SECRET_KEY, body)>>

\* The outcome of a handler: the tables after it, the response code, the
\* persistence calls that failed, whether an exception left the branch, and
\* the plan key the branch resolved (Undefined when it resolved none).
Outcome(us, ps, ss, code, errors, thrown, planKey) ==
  [users |-> us, payments |-> ps, subscriptions |-> ss, code |-> code,
   errors |-> errors, thrown |-> thrown, planKey |-> planKey]

\* if (evt === "charge.success" && email) { ... }
chargeSuccess(us, ps, ss, body, down, t) ==
  LET cu == createOrGetUser(us, body.email, down)
      planCode == planCodeOf(body)
      planKey == planKeyOf(planCode)
      pu == paymentUpsert(ps, OrElse(body.reference, ""),
                          OrElse(body.reference, GeneratedReference(t)),
                          OrElse(cu.user.id, Null), body.amount, "GHS")
      payErr == "payment.upsert" \in down \/ pu.err
      ps1 == IF payErr THEN ps ELSE pu.rows
      wantSub == planKey # "unknown" /\ (variant = 2 \/ Truthy(cu.user.id))
      subErr == "subscription.upsert" \in down
      ss1 == IF subErr THEN ss
             ELSE subscriptionUpsert(ss, OrElse(cu.user.id, ""), planKey,
                                     planCode, t)
  IN IF cu.thrown
     THEN Outcome(us, ps, ss, 500, cu.errors, TRUE, Undefined)
     ELSE IF payErr /\ variant = 2
     THEN Outcome(cu.users, ps, ss, 500, {"payment.upsert"}, TRUE, planKey)
     ELSE LET e1 == cu.errors \cup (IF payErr THEN {"payment.upsert"} ELSE {})
          IN IF ~wantSub
             THEN Outcome(cu.users, ps1, ss, 200, e1, FALSE, planKey)
             ELSE IF subErr /\ variant = 2
             THEN Outcome(cu.users, ps1, ss, 500, {"subscription.upsert"}, TRUE,
                          planKey)
             ELSE Outcome(cu.users, ps1, ss1, 200,
                          e1 \cup (IF subErr THEN {"subscription.upsert"} ELSE {}),
                          FALSE, planKey)

\* the failed-payment branch that also cancels the subscriptions of the
\* payment's user
paymentFailed_cancelsSubscriptions(us, ps, ss, body, down) ==
  Outcome(us, paymentUpdateMany(ps, body.reference),
          {IF s.userId = userFindUnique(us, body.email).id
           THEN [s EXCEPT !.status = "canceled"] ELSE s : s \in ss},
          200, {}, FALSE, Undefined)

\* if (evt === "invoice.payment_failed" || evt === "charge.failed") { ... }
\* (variant 2 only)
paymentFailed(us, ps, ss, body, down) ==
  IF Falsy(body.reference)
  THEN Outcome(us, ps, ss, 200, {}, FALSE, Undefined)
  ELSE IF "payment.updateMany" \in down
  THEN Outcome(us, ps, ss, 500, {"payment.updateMany"}, TRUE, Undefined)
  ELSE Outcome(us, paymentUpdateMany(ps, body.reference), ss, 200, {}, FALSE,
               Undefined)

\* if (evt === "subscription.disable" && email && planCode) { ... }
\* (variant 2 only); the plan key falls back to null here
subscriptionDisable(us, ps, ss, body, down) ==
  LET planCode == planCodeOf(body)
      user == userFindUnique(us, body.email)
      planKey == IF planCode = PLAN_CODES("premium") THEN "premium"
                 ELSE IF planCode = PLAN_CODES("pro") THEN "pro"
                 ELSE Null
  IN IF "user.findUnique" \in down
     THEN Outcome(us, ps, ss, 500, {"user.findUnique"}, TRUE, Undefined)
     ELSE IF user = NoUser \/ Falsy(planKey)
     THEN Outcome(us, ps, ss, 200, {}, FALSE,
                  IF user = NoUser THEN Undefined ELSE planKey)
     ELSE IF "subscription.updateMany" \in down
     THEN Outcome(us, ps, ss, 500, {"subscription.updateMany"}, TRUE, planKey)
     ELSE Outcome(us, ps, subscriptionUpdateMany(ss, user.id, planKey), 200,
                  {}, FALSE, planKey)

\* the webhook with the charge branch taken on `if (email)` alone, whatever
\* the event type
webhook_anyEventCharges(us, ps, ss, body, signature, down, t) ==
  IF signatureRejected(body, signature)
  THEN Outcome(us, ps, ss, 401, {}, FALSE, Undefined)
  ELSE IF ~body.json
  THEN Outcome(us, ps, ss, 500, {}, TRUE, Undefined)
  ELSE IF Truthy(body.email)
  THEN chargeSuccess(us, ps, ss, body, down, t)
  ELSE Outcome(us, ps, ss, 200, {}, FALSE, Undefined)

\* app.post("/api/paystack/webhook"): 401 on a signature mismatch, 500 when
\* JSON.parse or (variant 2) a persistence call throws, 200 otherwise.
webhook(us, ps, ss, body, signature, down, t) ==
  IF signatureRejected(body, signature)
  THEN Outcome(us, ps, ss, 401, {}, FALSE, Undefined)
  ELSE IF ~body.json
  THEN Outcome(us, ps, ss, 500, {}, TRUE, Undefined)
  ELSE IF body.event = "charge.success" /\ Truthy(body.email)
  THEN chargeSuccess(us, ps, ss, body, down, t)
  ELSE IF variant = 2 /\ body.event \in {"invoice.payment_failed", "charge.failed"}
  THEN paymentFailed(us, ps, ss, body, down)
  ELSE IF variant = 2 /\ body.event = "subscription.disable"
          /\ Truthy(body.email) /\ Truthy(planCodeOf(body))
  THEN subscriptionDisable(us, ps, ss, body, down)
  ELSE Outcome(us, ps, ss, 200, {}, FALSE, Undefined)

\* ------------------------------------------------------- the status read
\* the body of the JSON answer; plan and since are present only with "active"
Answer(status, plan, since) == [status |-> status, plan |-> plan, since |-> since]
NoAnswer == Answer(Undefined, Undefined, NoTime)

\* the rows user.subscriptions.find((s) => s.status === "active") can return:
\* the include lists the user's rows in no stated order, so any active row
\* may come first
activeSubscriptions(ss, userId) ==
  {s \in ss : s.userId = userId /\ s.status = "active"}

\* app.get("/api/subscription/status/:email"); first is the active row the
\* store lists first, when the user has one
subscriptionStatus(us, ss, email, down, first) ==
  LET user == userFindUnique(us, email)
  IN IF "user.findUnique" \in down
     THEN IF variant = 1
          THEN [code |-> 200, answer |-> Answer("free", Undefined, NoTime)]
          ELSE [code |-> 500, answer |-> NoAnswer]
     ELSE IF user = NoUser
     THEN [code |-> 200,
           answer |-> Answer(IF variant = 1 THEN "free" ELSE "none", Undefined,
                             NoTime)]
     ELSE IF first \in activeSubscriptions(ss, user.id)
     THEN [code |-> 200,
           answer |-> Answer("active", first.plan, first.lastPaidAt)]
     ELSE [code |-> 200, answer |-> Answer("free", Undefined, NoTime)]

\* ------------------------------------------------------- the initialize call
\* app.post("/api/paystack/initialize"): planInfo is what fetchPlanDetails
\* finds (variant 1 only), paystack what transaction/initialize answers, and
\* reference the reference it hands out.
initialize(us, ps, email, plan, planInfo, paystack, reference, down) ==
  LET cu == createOrGetUser(us, email, down)
      pc == paymentCreate(ps, OrElse(cu.user.id, Null), reference)
      payErr == "payment.create" \in down \/ pc.err
      out(u, p, code, errors) ==
        Outcome(u, p, {}, code, errors, code = 500, Undefined)
  IN IF Falsy(email) \/ Falsy(plan) THEN out(us, ps, 400, {})
     ELSE IF Falsy(PAYSTACK_SECRET_KEY) THEN out(us, ps, 500, {})
     ELSE IF Falsy(PLAN_CODES(plan)) THEN out(us, ps, 400, {})
     ELSE IF variant = 1 /\ planInfo = "throws" THEN out(us, ps, 500, {})
     ELSE IF variant = 1 /\ planInfo = "invalid" THEN out(us, ps, 400, {})
     ELSE IF cu.thrown THEN out(us, ps, 500, cu.errors)
     ELSE IF paystack = "throws" THEN out(cu.users, ps, 500, cu.errors)
     ELSE IF paystack = "refused" THEN out(cu.users, ps, 400, cu.errors)
     ELSE IF payErr
     THEN out(cu.users, ps, IF variant = 1 THEN 200 ELSE 500,
              cu.errors \cup {"payment.create"})
     ELSE out(cu.users, pc.rows, 200, cu.errors)

\* ---------------------------------------------------------- the state machine
\* conn: idle, or the request served last and its response, with the
\* persistence calls that failed while it was served (errors).
Conn(phase, op, body, signature, email, plan, ext, code, answer, errors, planKey, repeat) ==
  [phase |-> phase, op |-> op, body |-> body, signature |-> signature,
   email |-> email, plan |-> plan, ext |-> ext, code |-> code,
   answer |-> answer, errors |-> errors, planKey |-> planKey,
   repeat |-> repeat]

NoExt == [planInfo |-> "ok", paystack |-> "ok", reference |-> Undefined]

Idle ==
  Conn("idle", "none", NotJson, NoHeader, Undefined, Undefined, NoExt, 0,
       NoAnswer, {}, Undefined, FALSE)

WebhookOps == {"user.findUnique", "user.create", "payment.upsert",
               "payment.updateMany", "subscription.upsert",
               "subscription.updateMany"}

\* The requests served concurrently: every await of a handler is a point
\* where the other handler can run.  A handler is at pc, the persistence
\* call it awaits (or "respond" / "done"); user is what createOrGetUser gave
\* it, t the Date it took when it built the call it awaits, path the steps
\* it has gone through, conflicts the calls the store refused it.
Handlers == {1, 2}

Handler(pc, op, body, signature, email, reference, user, t, code, path, conflicts) ==
  [pc |-> pc, op |-> op, body |-> body, signature |-> signature,
   email |-> email, reference |-> reference, user |-> user, t |-> t,
   code |-> code, path |-> path, conflicts |-> conflicts]

\* a handler serving nothing
Quiet ==
  Handler("idle", "none", NotJson, NoHeader, Undefined, Undefined, NoUser,
          NoTime, 0, << >>, {})

\* the conditions a delivery of body b arrives under: any signature with the
\* store up, and the signature of the configured key with one persistence
\* call, or the whole store, failing
Deliveries(b) ==
  {<<sg, {}>> : sg \in SignaturesFor(b)}
  \cup {<<NoHeader, Ops>>}
  \cup {<<(<<HmacSha512Hex(PAYSTACK_SECRET_KEY, b)>>), d>> :
          d \in {{o} : o \in WebhookOps} \cup {Ops}}

\* what the processor and the store do during an initialize call
InitializeConditions ==
  {<<"ok", "ok", {}>>, <<"invalid", "ok", {}>>, <<"throws", "ok", {}>>,
   <<"ok", "refused", {}>>, <<"ok", "throws", {}>>,
   <<"ok", "ok", {"user.findUnique"}>>, <<"ok", "ok", {"payment.create"}>>}

Init ==
  /\ variant \in Variants
  /\ PAYSTACK_SECRET_KEY = "sk_live"
  /\ envPremium = "PLN_premium"
  /\ envPro = "PLN_pro"
  /\ users = {}
  /\ payments = {}
  /\ subscriptions = {}
  /\ now = 0
  /\ nreq = 0
  /\ conn = Idle
  /\ issued = {}
  /\ applied = {}
  /\ refTrail = [r \in References |-> << >>]
  /\ entitled = {}
  /\ revived = {}
  /\ inflight = [i \in Handlers |-> Quiet]

\* a request is received, at a later instant than the one before it
Received ==
  /\ conn.phase = "idle"
  /\ nreq < MaxReq
  /\ nreq' = nreq + 1
  /\ now' = now + 1

\* the canonical event of a delivery: kind, email, reference, plan code
PaymentEvent(body) ==
  <<body.event, body.email, body.reference, planCodeOf(body)>>

\* what serving a delivery of `body` does to the tables and the history
Deliver(body, signature, down) ==
  LET r == webhook(users, payments, subscriptions, body, signature, down, now')
      accepted == ~signatureRejected(body, signature) /\ body.json
      clean == accepted /\ r.code = 200 /\ r.errors = {}
      charge == body.event = "charge.success" /\ Truthy(body.email)
      disable == body.event = "subscription.disable" /\ Truthy(body.email)
  IN /\ users' = r.users
     /\ payments' = r.payments
     /\ subscriptions' = r.subscriptions
     /\ conn' = Conn("done", "webhook", body, signature, Undefined, Undefined,
                     NoExt, r.code, NoAnswer, r.errors, r.planKey,
                     PaymentEvent(body) \in applied)
     /\ applied' = IF clean /\ charge THEN applied \cup {PaymentEvent(body)}
                   ELSE applied
     /\ refTrail' =
          IF accepted /\ body.reference \in References
             /\ (charge \/ body.event \in {"charge.failed", "invoice.payment_failed"})
          THEN [refTrail EXCEPT ![body.reference] =
                  IF clean THEN Append(@, body.event) ELSE << >>]
          ELSE refTrail
     /\ entitled' =
          IF accepted /\ disable
          THEN {p \in entitled : p[1] # body.email}
          ELSE IF clean /\ charge
          THEN entitled \cup {<<body.email, planCodeOf(body)>>}
          ELSE entitled
     /\ revived' =
          revived \cup
            {<<s.userId, s.plan>> :
               s \in {x \in subscriptions :
                        /\ x.status = "canceled"
                        /\ \E y \in r.subscriptions :
                             y.id = x.id /\ y.status = "active"}}

\* POST /api/paystack/webhook
Webhook ==
  /\ Received
  /\ \E body \in Bodies : \E dl \in Deliveries(body) : Deliver(body, dl[1], dl[2])
  /\ UNCHANGED <<config, issued, inflight>>

\* no Subscription row
NoSubscription ==
  [id |-> 0, userId |-> Undefined, plan |-> Undefined, status |-> Undefined,
   providerPlanCode |-> Undefined, lastPaidAt |-> NoTime]

\* the rows the store may list first among a user's active ones
StoreOrder(userId) ==
  IF activeSubscriptions(subscriptions, userId) = {} THEN {NoSubscription}
  ELSE activeSubscriptions(subscriptions, userId)

\* GET /api/subscription/status/:email
Status ==
  /\ Received
  /\ \E email \in Emails, down \in {{}, {"user.findUnique"}} :
     \E first \in StoreOrder(userFindUnique(users, email).id) :
       LET r == subscriptionStatus(users, subscriptions, email, down, first)
       IN conn' = Conn("done", "status", NotJson, NoHeader, email, Undefined,
                       NoExt, r.code, r.answer, down, Undefined, FALSE)
  /\ UNCHANGED <<config, db, issued, history, inflight>>

\* POST /api/paystack/initialize; the processor hands out a fresh reference
Initialize ==
  /\ Received
  /\ \E email \in Emails, plan \in {"premium", "PAYSTACK_PLAN_PREMIUM"},
        reference \in References \ issued, c \in InitializeConditions :
       LET r == initialize(users, payments, email, plan, c[1], c[2], reference,
                           c[3])
           handedOut == r.code = 200 \/ "payment.create" \in r.errors
       IN /\ users' = r.users
          /\ payments' = r.payments
          /\ conn' = Conn("done", "initialize", NotJson, NoHeader, email, plan,
                          [planInfo |-> c[1], paystack |-> c[2],
                           reference |-> reference],
                          r.code, NoAnswer, r.errors, Undefined, FALSE)
          /\ issued' = IF handedOut THEN issued \cup {reference} ELSE issued
  /\ UNCHANGED <<config, subscriptions, history, inflight>>

\* the response has been sent
Close ==
  /\ conn.phase = "done"
  /\ conn' = Idle
  /\ UNCHANGED <<config, db, now, nreq, issued, history, inflight>>

Next ==
  \/ Webhook
  \/ Status
  \/ Initialize
  \/ Close

Spec == Init /\ [][Next]_vars

\* ------------------------------------------- any configuration of the process
\* The server started under any setting of the three environment variables,
\* receiving charge.success deliveries with every shape of the plan fields.
InitConfig ==
  /\ variant \in Variants
  /\ PAYSTACK_SECRET_KEY \in Secrets
  /\ envPremium \in PremiumCodes
  /\ envPro \in ProCodes
  /\ users = {}
  /\ payments = {}
  /\ subscriptions = {}
  /\ now = 0
  /\ nreq = 0
  /\ conn = Idle
  /\ issued = {}
  /\ applied = {}
  /\ refTrail = [r \in References |-> << >>]
  /\ entitled = {}
  /\ revived = {}
  /\ inflight = [i \in Handlers |-> Quiet]

WebhookConfig ==
  /\ Received
  /\ \E body \in PlanBodies \cup {NotJson} : \E sg \in SignaturesFor(body) :
       Deliver(body, sg, {})
  /\ UNCHANGED <<config, issued, inflight>>

NextConfig ==
  \/ WebhookConfig
  \/ Close

SpecConfig == InitConfig /\ [][NextConfig]_vars

\* ------------------------------------------------- handlers running at once
\* Two requests served at the same time, one persistence call at a step: a
\* handler runs from one await to the next, and between two steps of one
\* handler the other handler may take any number of its own.  The store
\* executes each call atomically; a call's arguments (the Date of lastPaidAt
\* and of a generated reference) are built when the call is issued, the step
\* before the store executes it.
ConcurrentBodies ==
  {Body("charge.success", "a@x.com", "ref1", Undefined, Undefined),
   Body("charge.success", "a@x.com", "ref1", "PLN_premium", Undefined),
   Body("charge.success", "b@x.com", Undefined, "PLN_other", Undefined),
   Body("charge.failed", "a@x.com", "ref1", "PLN_premium", Undefined),
   Body("subscription.disable", "a@x.com", Undefined, "PLN_premium", Undefined),
   Body("some.future.event", "a@x.com", "ref1", "PLN_premium", Undefined),
   NotJson}

\* the handler goes on to await `pc`, having gone through `steps`
Moved(h, pc, steps) == [h EXCEPT !.pc = pc, !.path = @ \o steps]
\* the handler sends its response
Responded(h, code, steps) ==
  [h EXCEPT !.pc = "done", !.code = code, !.path = @ \o steps]
\* the store refused `call` (unique constraint)
Refused(h, call) == [h EXCEPT !.conflicts = @ \cup {call}]

\* the handler without the signature check: it goes on to parse whatever
\* the header is
verifyStep_unverified(h) == Moved(h, "verified", <<"Unverified">>)

\* if (signature !== computed) return res.sendStatus(401)
verifyStep(h) ==
  IF signatureRejected(h.body, h.signature)
  THEN Responded(h, 401, <<"Rejected">>)
  ELSE Moved(h, "verified", <<"Verified">>)

\* the first persistence call of the branch the event selects, "respond"
\* when it selects none
firstCall(body) ==
  IF body.event = "charge.success" /\ Truthy(body.email)
  THEN "user.findUnique"
  ELSE IF variant = 2 /\ body.event \in {"invoice.payment_failed", "charge.failed"}
          /\ Truthy(body.reference)
  THEN "payment.updateMany"
  ELSE IF variant = 2 /\ body.event = "subscription.disable"
          /\ Truthy(body.email) /\ Truthy(planCodeOf(body))
  THEN "user.findUnique"
  ELSE "respond"

\* JSON.parse(req.body.toString("utf8")) and the extraction of the fields; a
\* throw goes to the catch, which answers 500
parseStep(h) ==
  IF ~h.body.json THEN Responded(h, 500, <<"Malformed">>)
  ELSE IF firstCall(h.body) = "respond"
  THEN Moved(h, "respond", <<"Normalized", "Reconciled">>)
  ELSE Moved(h, firstCall(h.body), <<"Normalized">>)

\* planCode === PLAN_CODES.premium ? "premium" :
\* planCode === PLAN_CODES.pro ? "pro" : null   (subscription.disable branch)
planKeyOrNull(planCode) ==
  IF planCode = PLAN_CODES("premium") THEN "premium"
  ELSE IF planCode = PLAN_CODES("pro") THEN "pro"
  ELSE Null

\* createOrGetUser has returned u after `call`: the webhook goes on to the
\* payment upsert, the initialize call to the payment create; t is the Date
\* the arguments of that call are built at
afterUser(h, u, call, t) ==
  [h EXCEPT !.user = u, !.t = t,
            !.pc = IF h.op = "initialize" THEN "payment.create"
                   ELSE "payment.upsert",
            !.path = Append(@, call)]

\* a delivery reaches a free handler
ArriveWebhook(i) ==
  /\ inflight[i].pc = "idle"
  /\ nreq < MaxReq
  /\ nreq' = nreq + 1
  /\ \E body \in ConcurrentBodies :
     \E sg \in {NoHeader, <<HmacSha512Hex(PAYSTACK_SECRET_KEY, body)>>} :
       inflight' = [inflight EXCEPT ![i] =
                      Handler("received", "webhook", body, sg, body.email,
                              body.reference, NoUser, NoTime, 0,
                              <<"Received">>, {})]
  /\ UNCHANGED <<config, db, now, conn, issued, history>>

\* an initialize call that passed its checks reaches createOrGetUser; the
\* processor will hand it a reference it has not handed out before
ArriveInitialize(i) ==
  /\ inflight[i].pc = "idle"
  /\ nreq < MaxReq
  /\ nreq' = nreq + 1
  /\ \E email \in Emails, reference \in References \ issued :
       /\ inflight' = [inflight EXCEPT ![i] =
                         Handler("user.findUnique", "initialize", NotJson,
                                 NoHeader, email, reference, NoUser, NoTime, 0,
                                 <<"Received">>, {})]
       /\ issued' = issued \cup {reference}
  /\ UNCHANGED <<config, db, now, conn, history>>

Verify(i) ==
  /\ inflight[i].pc = "received"
  /\ inflight' = [inflight EXCEPT ![i] = verifyStep(@)]
  /\ UNCHANGED <<config, db, now, nreq, conn, issued, history>>

Parse(i) ==
  /\ inflight[i].pc = "verified"
  /\ inflight' = [inflight EXCEPT ![i] = parseStep(@)]
  /\ UNCHANGED <<config, db, now, nreq, conn, issued, history>>

\* await prisma.user.findUnique({ where: { email } }), in createOrGetUser and
\* in the subscription.disable branch
FindUser(i) ==
  LET h == inflight[i]
      u == userFindUnique(users, h.email)
  IN /\ h.pc = "user.findUnique"
     /\ IF h.op = "webhook" /\ h.body.event = "subscription.disable"
        THEN /\ inflight' = [inflight EXCEPT ![i] =
                  IF u # NoUser /\ Truthy(planKeyOrNull(planCodeOf(h.body)))
                  THEN [h EXCEPT !.user = u, !.pc = "subscription.updateMany",
                                 !.path = Append(@, "user.findUnique")]
                  ELSE Moved(h, "respond", <<"user.findUnique", "Reconciled">>)]
             /\ now' = now
        ELSE IF u = NoUser
        THEN /\ inflight' = [inflight EXCEPT ![i] =
                               Moved(h, "user.create", <<"user.findUnique">>)]
             /\ now' = now
        ELSE /\ inflight' = [inflight EXCEPT ![i] =
                               afterUser(h, u, "user.findUnique", now + 1)]
             /\ now' = now + 1
     /\ UNCHANGED <<config, db, nreq, conn, issued, history>>

\* await prisma.user.create({ data: { email } }): refused when another
\* handler has created the row since this one looked; variant 1 catches and
\* goes on with null, variant 2 throws to the handler's catch
CreateUser(i) ==
  LET h == inflight[i]
      r == userCreate(users, h.email)
  IN /\ h.pc = "user.create"
     /\ users' = r.rows
     /\ now' = now + 1
     /\ inflight' = [inflight EXCEPT ![i] =
          IF ~r.err THEN afterUser(h, r.user, "user.create", now + 1)
          ELSE IF variant = 1
          THEN afterUser(Refused(h, "user.create"), NoUser, "user.create",
                         now + 1)
          ELSE Responded(Refused(h, "user.create"), 500,
                         <<"user.create", "Failed">>)]
     /\ UNCHANGED <<config, payments, subscriptions, nreq, conn, issued, history>>

\* await prisma.payment.upsert(...), then the subscription upsert is built
\* (new Date()) when the plan is known
UpsertPayment(i) ==
  LET h == inflight[i]
      pu == paymentUpsert(payments, OrElse(h.reference, ""),
                          OrElse(h.reference, GeneratedReference(h.t)),
                          OrElse(h.user.id, Null), h.body.amount, "GHS")
      planKey == planKeyOf(planCodeOf(h.body))
      wantSub == planKey # "unknown" /\ (variant = 2 \/ Truthy(h.user.id))
      h1 == IF pu.err THEN Refused(h, "payment.upsert") ELSE h
  IN /\ h.pc = "payment.upsert"
     /\ payments' = pu.rows
     /\ IF pu.err /\ variant = 2
        THEN /\ inflight' = [inflight EXCEPT ![i] =
                  Responded(h1, 500, <<"payment.upsert", "Failed">>)]
             /\ now' = now
        ELSE IF wantSub
        THEN /\ inflight' = [inflight EXCEPT ![i] =
                  [h1 EXCEPT !.pc = "subscription.upsert", !.t = now + 1,
                             !.path = Append(@, "payment.upsert")]]
             /\ now' = now + 1
        ELSE /\ inflight' = [inflight EXCEPT ![i] =
                  Moved(h1, "respond", <<"payment.upsert", "Reconciled">>)]
             /\ now' = now
     /\ UNCHANGED <<config, users, subscriptions, nreq, conn, issued, history>>

\* await prisma.subscription.upsert(...): the store writes the row with the
\* lastPaidAt the handler built
UpsertSubscription(i) ==
  LET h == inflight[i]
  IN /\ h.pc = "subscription.upsert"
     /\ subscriptions' =
          subscriptionUpsert(subscriptions, OrElse(h.user.id, ""),
                             planKeyOf(planCodeOf(h.body)),
                             planCodeOf(h.body), h.t)
     /\ inflight' = [inflight EXCEPT ![i] =
          Moved(h, "respond", <<"subscription.upsert", "Reconciled">>)]
     /\ UNCHANGED <<config, users, payments, now, nreq, conn, issued, history>>

\* await prisma.payment.updateMany(...) of the failed-payment branch
UpdatePayment(i) ==
  LET h == inflight[i]
  IN /\ h.pc = "payment.updateMany"
     /\ payments' = paymentUpdateMany(payments, h.reference)
     /\ inflight' = [inflight EXCEPT ![i] =
          Moved(h, "respond", <<"payment.updateMany", "Reconciled">>)]
     /\ UNCHANGED <<config, users, subscriptions, now, nreq, conn, issued,
                    history>>

\* await prisma.subscription.updateMany(...) of the subscription.disable branch
CancelSubscription(i) ==
  LET h == inflight[i]
  IN /\ h.pc = "subscription.updateMany"
     /\ subscriptions' =
          subscriptionUpdateMany(subscriptions, h.user.id,
                                 planKeyOrNull(planCodeOf(h.body)))
     /\ inflight' = [inflight EXCEPT ![i] =
          Moved(h, "respond", <<"subscription.updateMany", "Reconciled">>)]
     /\ UNCHANGED <<config, users, payments, now, nreq, conn, issued, history>>

\* await prisma.payment.create(...) of the initialize call: variant 1 catches
\* a refusal and answers 200, variant 2 answers 500
CreatePayment(i) ==
  LET h == inflight[i]
      pc == paymentCreate(payments, OrElse(h.user.id, Null), h.reference)
      h1 == IF pc.err THEN Refused(h, "payment.create") ELSE h
  IN /\ h.pc = "payment.create"
     /\ payments' = pc.rows
     /\ inflight' = [inflight EXCEPT ![i] =
          IF pc.err /\ variant = 2
          THEN Responded(h1, 500, <<"payment.create", "Failed">>)
          ELSE Moved(h1, "respond", <<"payment.create", "Reconciled">>)]
     /\ UNCHANGED <<config, users, subscriptions, now, nreq, conn, issued,
                    history>>

\* res.sendStatus(200) / res.json(...)
Respond(i) ==
  /\ inflight[i].pc = "respond"
  /\ inflight' = [inflight EXCEPT ![i] = Responded(@, 200, <<"Acknowledged">>)]
  /\ UNCHANGED <<config, db, now, nreq, conn, issued, history>>

\* the handler is free for the next request
Release(i) ==
  /\ inflight[i].pc = "done"
  /\ inflight' = [inflight EXCEPT ![i] = Quiet]
  /\ UNCHANGED <<config, db, now, nreq, conn, issued, history>>

NextConcurrent ==
  \E i \in Handlers :
    \/ ArriveWebhook(i)
    \/ ArriveInitialize(i)
    \/ Verify(i)
    \/ Parse(i)
    \/ FindUser(i)
    \/ CreateUser(i)
    \/ UpsertPayment(i)
    \/ UpsertSubscription(i)
    \/ UpdatePayment(i)
    \/ CancelSubscription(i)
    \/ CreatePayment(i)
    \/ Respond(i)
    \/ Release(i)

SpecConcurrent == Init /\ [][NextConcurrent]_vars

\* ------------------------------------------------------------------ claims
\* what the claims read off a served request
ServedWebhook == conn.phase = "done" /\ conn.op = "webhook"
ServedStatus == conn.phase = "done" /\ conn.op = "status"
\* the header carries the hex HMAC-SHA512 of the raw body under the secret
SignatureMatches(c) ==
  c.signature = <<HmacSha512Hex(PAYSTACK_SECRET_KEY, c.body)>>
\* a ChargeSucceeded event: charge.success with a customer email
IsChargeSucceeded(body) ==
  body.json /\ body.event = "charge.success" /\ Truthy(body.email)
PaymentsOf(ps, reference) == {p \in ps : p.reference = reference}
UserIdsOf(us, email) == {u.id : u \in {x \in us : x.email = email}}
SubscriptionsOf(ss, ids) == {x \in ss : x.userId \in ids}

\* C1: a delivery whose signature header is missing or differs from the hex
\* HMAC-SHA512 of the raw body under the configured secret is answered 401
\* and nothing else happens: the body is not parsed (no plan is resolved, a
\* body that is no JSON still gets 401, no persistence call is made) and the
\* User, Payment and Subscription rows stay as they were.
C1_RejectedDeliveryIsTerminal ==
  [][(conn'.phase = "done" /\ conn'.op = "webhook" /\ conn.phase = "idle"
      /\ ~SignatureMatches(conn'))
     => (/\ conn'.code = 401
         /\ conn'.errors = {}
         /\ conn'.planKey = Undefined
         /\ users' = users /\ payments' = payments
         /\ subscriptions' = subscriptions)]_vars

\* C1 witness: a charge.success delivery without a signature header, for a
\* reference whose Payment row exists, was answered 401 and the row is still
\* initialized.
C1_Witness ==
  /\ ServedWebhook
  /\ conn.signature = NoHeader
  /\ conn.code = 401
  /\ IsChargeSucceeded(conn.body)
  /\ \E p \in payments :
       p.reference = conn.body.reference /\ p.status = "initialized"

\* C2: while the secret is missing (PAYSTACK_SECRET_KEY is ""), no delivery
\* passes verification: every delivery is answered 401, whatever its body and
\* signature header.
C2_NoSecretNoAcceptance ==
  (ServedWebhook /\ PAYSTACK_SECRET_KEY = "") => conn.code = 401

\* C3: when a ChargeSucceeded event with a reference that was applied before
\* is applied again (accepted, no persistence call failing), no Payment row
\* is added and afterwards exactly one Payment row has the reference, with
\* status success.
C3_SecondApplicationKeepsOneRow ==
  [][(/\ conn'.phase = "done" /\ conn'.op = "webhook" /\ conn.phase = "idle"
      /\ SignatureMatches(conn')
      /\ IsChargeSucceeded(conn'.body)
      /\ Truthy(conn'.body.reference)
      /\ conn'.repeat
      /\ conn'.errors = {})
     => (/\ Cardinality(payments') = Cardinality(payments)
         /\ Cardinality(PaymentsOf(payments', conn'.body.reference)) = 1
         /\ \A p \in PaymentsOf(payments', conn'.body.reference) :
              p.status = "success")]_vars

\* C3 witness: the same ChargeSucceeded event was applied a second time, and
\* acknowledged, after a charge.failed delivery for its reference.
C3_Witness ==
  /\ ServedWebhook
  /\ conn.code = 200
  /\ conn.errors = {}
  /\ IsChargeSucceeded(conn.body)
  /\ Truthy(conn.body.reference)
  /\ conn.repeat
  /\ refTrail[conn.body.reference]
       = <<"charge.success", "charge.failed", "charge.success">>
  /\ Cardinality(PaymentsOf(payments, conn.body.reference)) = 1

\* the last n event types applied to a reference
LastApplied(reference, n) ==
  LET t == refTrail[reference]
  IN IF Len(t) < n THEN << >> ELSE SubSeq(t, Len(t) - n + 1, Len(t))

\* C4: applying ChargeSucceeded, then ChargeFailed, then ChargeSucceeded for
\* one reference (each accepted, no persistence call failing) leaves exactly
\* one Payment row for the reference after each step, with status success
\* after the first, failed after the second and success after the third.
C4_LastAppliedWins ==
  \A r \in References :
    LET rows == PaymentsOf(payments, r)
        one(status) == Cardinality(rows) = 1 /\ \A p \in rows : p.status = status
    IN /\ LastApplied(r, 1) = <<"charge.success">> => one("success")
       /\ LastApplied(r, 2) = <<"charge.success", "charge.failed">>
            => one("failed")
       /\ LastApplied(r, 3) = <<"charge.success", "charge.failed", "charge.success">>
            => one("success")

\* the plan key the two configured plan codes give a plan code
ConfiguredPlanKey(planCode) ==
  IF Truthy(envPremium) /\ planCode = envPremium THEN "premium"
  ELSE IF Truthy(envPro) /\ planCode = envPro THEN "pro"
  ELSE "unknown"

\* C5: a ChargeSucceeded event with a configured plan code, for a user with
\* no Subscription row, creates exactly one Subscription row, for (user,
\* plan) and active; a later SubscriptionDisabled event for the same user and
\* plan code leaves exactly one row for (user, plan), with status canceled.
C5_SubscribeThenDisable ==
  [][(/\ conn'.phase = "done" /\ conn'.op = "webhook" /\ conn.phase = "idle"
      /\ SignatureMatches(conn') /\ conn'.body.json /\ conn'.errors = {}
      /\ Truthy(conn'.body.email)
      /\ ConfiguredPlanKey(planCodeOf(conn'.body)) # "unknown")
     => LET body == conn'.body
            plan == ConfiguredPlanKey(planCodeOf(body))
            before == SubscriptionsOf(subscriptions, UserIdsOf(users, body.email))
            after == SubscriptionsOf(subscriptions', UserIdsOf(users', body.email))
        IN /\ (body.event = "charge.success" /\ before = {})
                => (/\ Cardinality(after) = 1
                    /\ \A x \in after : x.plan = plan /\ x.status = "active")
           /\ (body.event = "subscription.disable"
               /\ <<body.email, planCodeOf(body)>> \in entitled)
                => (/\ Cardinality({x \in after : x.plan = plan}) = 1
                    /\ \A x \in after : x.plan = plan => x.status = "canceled")]_vars

\* C6: the plan key the webhook resolves is premium exactly for the configured
\* premium plan code, pro exactly for the configured pro plan code, and
\* unknown for every other plan code (absent, null and empty included),
\* under every setting of the two plan-code variables.
C6_PlanResolution ==
  (ServedWebhook /\ conn.code = 200 /\ IsChargeSucceeded(conn.body))
    => conn.planKey = ConfiguredPlanKey(planCodeOf(conn.body))

\* C7: a ChargeSucceeded event whose plan code is none of the configured plan
\* codes leaves the Subscription rows as they were.
C7_UnknownPlanNoSubscription ==
  [][(/\ conn'.phase = "done" /\ conn'.op = "webhook" /\ conn.phase = "idle"
      /\ SignatureMatches(conn')
      /\ IsChargeSucceeded(conn'.body)
      /\ ConfiguredPlanKey(planCodeOf(conn'.body)) = "unknown")
     => subscriptions' = subscriptions]_vars

\* C8: a delivery that passes signature verification and parses as JSON is
\* answered 200, whichever persistence calls fail while it is served.
C8_PersistenceFailureStillAcknowledged ==
  (ServedWebhook /\ SignatureMatches(conn) /\ conn.body.json) => conn.code = 200

\* C9: the status read answers 200 {status: "free"} when no User has the
\* email, when the User has no active Subscription row and when the lookup
\* fails; it never answers with an error code.
C9_StatusFailsClosed ==
  ServedStatus =>
    LET ids == UserIdsOf(users, conn.email)
        active == {x \in SubscriptionsOf(subscriptions, ids) : x.status = "active"}
    IN /\ conn.code = 200
       /\ (ids = {} \/ active = {} \/ conn.errors # {})
            => conn.answer.status = "free"

\* C10: once a charge.success delivery for email e with the configured premium
\* plan code was acknowledged with 200 (no persistence call failing) and no
\* subscription.disable for e came after it, a status read for e (the lookup
\* not failing) answers status active with plan premium.
C10_ChargeThenStatusActive ==
  (/\ ServedStatus /\ conn.errors = {}
   /\ Truthy(envPremium) /\ <<conn.email, envPremium>> \in entitled)
    => conn.answer.status = "active" /\ conn.answer.plan = "premium"

\* the Subscription rows without their timestamps
Undated(ss) == {[s EXCEPT !.lastPaidAt = NoTime] : s \in ss}
\* the handler has gone through `step`
Went(h, step) == \E k \in 1..Len(h.path) : h.path[k] = step

\* C11: when the only two requests so far were two overlapping deliveries of
\* one ChargeSucceeded event with a reference, both correctly signed, for a
\* user that did not exist, and both have been answered, then neither was refused a write by
\* a unique constraint, both were answered 200, and the User, Payment and
\* Subscription rows are those that processing the event once, alone, leaves
\* (timestamps aside): one of each at most, no duplicates.
C11_ConcurrentDuplicatesConverge ==
  (/\ nreq = 2
   /\ \A i \in Handlers :
        /\ inflight[i].pc = "done" /\ inflight[i].op = "webhook"
        /\ inflight[i].body = inflight[1].body
        /\ inflight[i].signature
             = <<HmacSha512Hex(PAYSTACK_SECRET_KEY, inflight[i].body)>>
   /\ IsChargeSucceeded(inflight[1].body)
   /\ Truthy(inflight[1].body.reference))
  => /\ \A i \in Handlers :
          inflight[i].conflicts = {} /\ inflight[i].code = 200
     /\ \E t \in 1..now :
          LET once == chargeSuccess({}, {}, {}, inflight[1].body, {}, t)
          IN /\ users = once.users
             /\ payments = once.payments
             /\ Undated(subscriptions) = Undated(once.subscriptions)

\* C12: no email has two User rows, and every createOrGetUser call with a
\* non-empty email that has returned (in a ChargeSucceeded delivery or an
\* initialize call, the store being available) returned the User of that
\* email, whatever the other handler did meanwhile.
C12_CreateOrGetUserIdempotent ==
  /\ \A e \in Emails : Cardinality({u \in users : u.email = e}) <= 1
  /\ \A i \in Handlers :
       LET h == inflight[i]
       IN (/\ Went(h, "user.findUnique")
           /\ h.pc \notin {"user.findUnique", "user.create"}
           /\ h.op = "initialize" \/ IsChargeSucceeded(h.body))
          => h.user.email = h.email

\* C13: a write to a Subscription row never stores a lastPaidAt earlier than
\* the one the row had, for every (user, plan) and every interleaving of the
\* handlers.
C13_LastPaidAtNeverDecreases ==
  [][\A s \in subscriptions : \A w \in subscriptions' :
       (w.userId = s.userId /\ w.plan = s.plan)
         => w.lastPaidAt >= s.lastPaidAt]_vars

\* C14: every Payment row an accepted ChargeSucceeded delivery writes (adds
\* or updates) carries the reference of the delivered event, never one the
\* server made up; and delivering an event again that was applied before,
\* with or without a reference, adds no Payment row.
C14_WebhookStoresEventReference ==
  [][(/\ conn'.phase = "done" /\ conn'.op = "webhook" /\ conn.phase = "idle"
      /\ SignatureMatches(conn')
      /\ IsChargeSucceeded(conn'.body)
      /\ conn'.errors = {})
     => (/\ \A p \in payments' \ payments :
              p.reference = conn'.body.reference
         /\ conn'.repeat
              => Cardinality(payments') = Cardinality(payments))]_vars

\* C15: however the initialize call's payment.create and the webhook's
\* writes interleave, no two Payment rows have the same reference, a row
\* that exists stays the row of its reference (a later event updates it, it
\* is never created again), and a row that is success or failed never
\* becomes initialized.
C15_OnePaymentPerReference ==
  [][/\ \A p \in payments' : \A q \in payments' :
          p.reference = q.reference => p = q
     /\ \A p \in payments :
          \E q \in payments' :
            /\ q.reference = p.reference /\ q.id = p.id
            /\ p.status \in {"success", "failed"} => q.status # "initialized"]_vars

\* C15 witness: an initialize call was refused its payment.create because a
\* delivery had already written the row of the reference it was handed, and
\* that row is the only one of the reference and is still success.
C15_Witness ==
  \E i \in Handlers :
    /\ inflight[i].op = "initialize"
    /\ "payment.create" \in inflight[i].conflicts
    /\ Cardinality(PaymentsOf(payments, inflight[i].reference)) = 1
    /\ \A p \in PaymentsOf(payments, inflight[i].reference) : p.status = "success"

\* the event types the webhook has a branch for
HandledEvents ==
  {"charge.success", "charge.failed", "invoice.payment_failed",
   "subscription.disable"}

\* C16: a correctly signed delivery whose event type is none of
\* charge.success, charge.failed, invoice.payment_failed and
\* subscription.disable is answered 200 and leaves the User, Payment and
\* Subscription rows as they were.
C16_UnhandledEventIsNoOp ==
  [][(/\ conn'.phase = "done" /\ conn'.op = "webhook" /\ conn.phase = "idle"
      /\ SignatureMatches(conn')
      /\ conn'.body.json
      /\ conn'.body.event \notin HandledEvents)
     => (/\ conn'.code = 200
         /\ users' = users /\ payments' = payments
         /\ subscriptions' = subscriptions)]_vars

\* C16 witness: a correctly signed delivery of an unhandled event type,
\* carrying the email and reference of rows that exist, was answered 200.
C16_Witness ==
  /\ ServedWebhook
  /\ SignatureMatches(conn)
  /\ conn.body.json
  /\ conn.body.event \notin HandledEvents
  /\ conn.code = 200
  /\ UserIdsOf(users, conn.body.email) # {}
  /\ PaymentsOf(payments, conn.body.reference) # {}

\* C17: under every configured secret S, a delivery of body B whose header is
\* the hex HMAC-SHA512 of B under S is not answered 401, and a delivery whose
\* header is the HMAC under S of a body other than the one delivered is
\* answered 401.
C17_SignatureRoundTrip ==
  ServedWebhook =>
    /\ conn.signature = <<HmacSha512Hex(PAYSTACK_SECRET_KEY, conn.body)>>
         => conn.code # 401
    /\ \A b \in PlanBodies \cup {NotJson} :
         (b # conn.body
          /\ conn.signature = <<HmacSha512Hex(PAYSTACK_SECRET_KEY, b)>>)
           => conn.code = 401

\* C17 witness: after a correctly signed delivery was accepted and wrote its
\* Payment row, a delivery of a JSON body carrying the signature computed
\* for another body was answered 401.
C17_Witness ==
  /\ ServedWebhook
  /\ conn.body.json
  /\ conn.signature = <<HmacSha512Hex(PAYSTACK_SECRET_KEY, NotJson)>>
  /\ conn.code = 401
  /\ payments # {}

\* the persistence calls and the responses in a handler's path
Calls ==
  {"user.findUnique", "user.create", "payment.upsert", "subscription.upsert",
   "payment.updateMany", "subscription.updateMany"}
Responses == {"Rejected", "Malformed", "Failed", "Acknowledged"}

\* C18: in every webhook request the steps come in the order Received,
\* Verified, Normalized, the persistence calls, Reconciled, Acknowledged: a
\* persistence call comes only after the signature was verified and the body
\* parsed; a response is the last step, so there is one response and it
\* follows every persistence call of the request; 200 is sent after
\* Reconciled; a signature mismatch answers 401 right after Received and a
\* parse failure answers 500 right after Verified, with no persistence call.
C18_RequestStepsInOrder ==
  \A i \in Handlers :
    LET h == inflight[i]
        p == h.path
        n == Len(p)
    IN h.op = "webhook" =>
       /\ p[1] = "Received"
       /\ \A k \in 1..n :
            /\ p[k] \in Calls
                 => (k > 3 /\ SubSeq(p, 1, 3) = <<"Received", "Verified", "Normalized">>)
            /\ p[k] \in Responses => (k = n /\ h.pc = "done")
            /\ p[k] = "Reconciled" => \A j \in 4..(k - 1) : p[j] \in Calls
       /\ h.pc = "done" => p[n] \in Responses
       /\ (h.pc = "done" /\ p[n] = "Acknowledged")
            => (h.code = 200 /\ p[n - 1] = "Reconciled")
       /\ (h.pc = "done" /\ p[n] = "Rejected")
            => (h.code = 401 /\ p = <<"Received", "Rejected">>)
       /\ (h.pc = "done" /\ p[n] = "Malformed")
            => (h.code = 500 /\ p = <<"Received", "Verified", "Malformed">>)
       /\ h.pc \in Calls => (n >= 3 /\ p[n] \in Calls \cup {"Normalized"})

\* C18 witness: one delivery went through verification, parsing, the user
\* lookup and creation, the payment upsert and the subscription upsert, and
\* was acknowledged, while the other was answered 500 on a parse failure.
C18_Witness ==
  \E i \in Handlers : \E j \in Handlers :
    /\ inflight[i].path
         = <<"Received", "Verified", "Normalized", "user.findUnique",
             "user.create", "payment.upsert", "subscription.upsert",
             "Reconciled", "Acknowledged">>
    /\ inflight[i].code = 200
    /\ inflight[j].path = <<"Received", "Verified", "Malformed">>
    /\ inflight[j].code = 500

\* C19: an accepted charge.failed or invoice.payment_failed delivery (no
\* persistence call failing) is answered 200, sets the status of the Payment
\* row with the event's reference to failed when there is such a row, and
\* changes nothing else: without a reference, or without a row of that
\* reference, no row is created or changed.
C19_FailedEventMarksExistingRow ==
  [][(/\ conn'.phase = "done" /\ conn'.op = "webhook" /\ conn.phase = "idle"
      /\ SignatureMatches(conn')
      /\ conn'.body.json
      /\ conn'.body.event \in {"charge.failed", "invoice.payment_failed"}
      /\ conn'.errors = {})
     => (/\ conn'.code = 200
         /\ users' = users
         /\ subscriptions' = subscriptions
         /\ payments' =
              {IF Truthy(conn'.body.reference)
                  /\ p.reference = conn'.body.reference
               THEN [p EXCEPT !.status = "failed"] ELSE p : p \in payments})]_vars

\* C20: an accepted subscription.disable delivery (no persistence call
\* failing) is answered 200 and creates or changes no User and no Payment.
\* Unless it has an email, a plan code that is one of the configured ones and
\* a User of that email, it leaves the Subscription rows as they were; when
\* it has them, every Subscription row is either left as it was or is a row
\* of that user and plan with its status set to canceled, and no row is
\* added.
C20_DisableOnlyCancels ==
  [][(/\ conn'.phase = "done" /\ conn'.op = "webhook" /\ conn.phase = "idle"
      /\ SignatureMatches(conn')
      /\ conn'.body.json
      /\ conn'.body.event = "subscription.disable"
      /\ conn'.errors = {})
     => LET body == conn'.body
            plan == ConfiguredPlanKey(planCodeOf(body))
            ids == UserIdsOf(users, body.email)
            applies == Truthy(body.email) /\ plan # "unknown" /\ ids # {}
            canceled == {[s EXCEPT !.status = "canceled"] :
                           s \in {x \in subscriptions :
                                    x.userId \in ids /\ x.plan = plan}}
        IN /\ conn'.code = 200
           /\ users' = users
           /\ payments' = payments
           /\ ~applies => subscriptions' = subscriptions
           /\ applies =>
                /\ subscriptions' \subseteq subscriptions \cup canceled
                /\ Cardinality(subscriptions') = Cardinality(subscriptions)]_vars

\* C20 witness: a subscription.disable delivery for a user with two active
\* plans was acknowledged; the row of the plan it names is canceled and the
\* row of the other plan is still active.
C20_Witness ==
  /\ ServedWebhook
  /\ SignatureMatches(conn)
  /\ conn.body.json
  /\ conn.body.event = "subscription.disable"
  /\ conn.code = 200
  /\ \E s \in SubscriptionsOf(subscriptions, UserIdsOf(users, conn.body.email)) :
       /\ s.plan = ConfiguredPlanKey(planCodeOf(conn.body))
       /\ s.status = "canceled"
  /\ \E s \in SubscriptionsOf(subscriptions, UserIdsOf(users, conn.body.email)) :
       /\ s.plan # ConfiguredPlanKey(planCodeOf(conn.body))
       /\ s.status = "active"

\* C21: when an accepted ChargeSucceeded event (no persistence call failing)
\* with a configured plan code finds the Subscription row of its user and
\* plan canceled, that row, the only one of the pair, is active afterwards
\* with lastPaidAt the time of processing, and no row was added.
C21_CanceledRowIsReactivated ==
  [][(/\ conn'.phase = "done" /\ conn'.op = "webhook" /\ conn.phase = "idle"
      /\ SignatureMatches(conn')
      /\ IsChargeSucceeded(conn'.body)
      /\ conn'.errors = {})
     => LET body == conn'.body
            plan == ConfiguredPlanKey(planCodeOf(body))
            ids == UserIdsOf(users, body.email)
        IN \A s \in subscriptions :
             (s.userId \in ids /\ s.plan = plan /\ s.status = "canceled")
               => /\ Cardinality(subscriptions') = Cardinality(subscriptions)
                  /\ \A w \in subscriptions' :
                       (w.userId = s.userId /\ w.plan = s.plan)
                         => (/\ w.id = s.id
                             /\ w.status = "active"
                             /\ w.lastPaidAt = now')]_vars

\* C21 witness: a ChargeSucceeded delivery was acknowledged that found the
\* row of its user and plan canceled by an earlier subscription.disable; the
\* row is active, dated now, and the only one of its pair.
C21_Witness ==
  /\ ServedWebhook
  /\ conn.code = 200
  /\ IsChargeSucceeded(conn.body)
  /\ \E s \in SubscriptionsOf(subscriptions, UserIdsOf(users, conn.body.email)) :
       /\ <<s.userId, s.plan>> \in revived
       /\ s.plan = ConfiguredPlanKey(planCodeOf(conn.body))
       /\ s.status = "active"
       /\ s.lastPaidAt = now
       /\ Cardinality({x \in subscriptions :
                         x.userId = s.userId /\ x.plan = s.plan}) = 1

\* C22: a Subscription row becomes active (is created active, or turns
\* active) only in a step that serves a webhook delivery whose signature
\* matches, whose event is charge.success with the email of the row's user,
\* and whose plan code is the configured plan code of the row's plan; no
\* other delivery and no other endpoint makes a row active.
C22_ActiveOnlyByVerifiedCharge ==
  [][\A s \in subscriptions' :
       (/\ s.status = "active"
        /\ ~\E x \in subscriptions : x.id = s.id /\ x.status = "active")
         => (/\ conn'.phase = "done" /\ conn'.op = "webhook"
             /\ SignatureMatches(conn')
             /\ IsChargeSucceeded(conn'.body)
             /\ s.userId \in UserIdsOf(users', conn'.body.email)
             /\ ConfiguredPlanKey(planCodeOf(conn'.body)) = s.plan)]_vars

\* C23: a charge.failed or invoice.payment_failed delivery, whatever its
\* signature and whatever persistence calls fail, leaves every User row and
\* every Subscription row as it was, so the status read of every email
\* answers after it what it answered before it.
C23_FailedEventKeepsSubscriptions ==
  [][(/\ conn'.phase = "done" /\ conn'.op = "webhook" /\ conn.phase = "idle"
      /\ conn'.body.event \in {"charge.failed", "invoice.payment_failed"})
     => (/\ users' = users
         /\ subscriptions' = subscriptions
         /\ \A e \in Emails :
              \A f \in subscriptions \cup {NoSubscription} :
                subscriptionStatus(users', subscriptions', e, {}, f)
                  = subscriptionStatus(users, subscriptions, e, {}, f))]_vars

\* C23 witness: a correctly signed failed-payment delivery was acknowledged
\* and marked the Payment row of its reference failed, and the user it
\* names still has an active Subscription row.
C23_Witness ==
  /\ ServedWebhook
  /\ SignatureMatches(conn)
  /\ conn.body.event \in {"charge.failed", "invoice.payment_failed"}
  /\ conn.code = 200
  /\ \E p \in PaymentsOf(payments, conn.body.reference) : p.status = "failed"
  /\ \E s \in SubscriptionsOf(subscriptions, UserIdsOf(users, conn.body.email)) :
       s.status = "active"

====
